---------------------------- MODULE Spec2Model ----------------------------
(***************************************************************************)
(* A model of the Cardano wallet application: the net-amount reconciliation *)
(* (blockchain utilities), the Home page (sendAda and the local history     *)
(* log), the Dashboard (transaction loading and AI categorization) and the  *)
(* /api/categorize route.                                                   *)
(*                                                                         *)
(* Text is modelled as sequences of tokens (one-character strings, digits   *)
(* or message fragments), so that startsWith, includes, trim, parseInt and  *)
(* template strings are computed and not assumed.                           *)
(***************************************************************************)
EXTENDS Integers, Sequences, FiniteSets, TLC

VARIABLES
    \* ---- blockchain utilities: calculateAccurateTransactionAmount
    utxos,          \* what GET /txs/{hash}/utxos answers: [inputs, outputs]
    address,        \* the target address of the calculation
    amountPc,       \* "start" | "done"
    fetchOk,        \* whether fetchTransactionUTXOs returned (FALSE: it threw)
    amount,         \* the returned amount, in ADA: [whole, micro]
    \* ---- Home page (pages/index.tsx)
    connected,          \* useWallet().connected
    recipientAddress,   \* form state, text
    sendAmount,         \* form state, text
    sendMessage,        \* form state, text
    sendLoading,        \* useState(false)
    sendStatus,         \* useState(""), text
    txHash,             \* useState("")
    sentMessage,        \* useState(""), text
    sendExecs,          \* the sendAda executions in flight: [pc, req, lovelace,
                        \* calls, statuses], req the form values the
                        \* execution's closure captured
    store,              \* localStorage item 'cardano_transactions'
    clock,              \* Date.now(), one tick per saved entry
    sends,              \* sendAda/saveTransaction invocations so far
    budget,             \* invocations this run may make
    failBudget,         \* failed transactions this run may save
    failedSaves,        \* saves of a failed transaction so far
    saved,              \* every saveTransaction call so far: [now, transaction]
    ended,              \* sendAda invocations that have ended
    lastError,          \* what was thrown in the invocation that ended last
    lastAttempt,        \* the invocation that ended last: its closure, the
                        \* lovelace balance it read (-1: none), the wallet and
                        \* builder calls it made and the statuses it set
    \* ---- utils/aiCategorization.ts: one call of categorizeTransactionsWithAI
    catMessages,        \* the messages argument
    catProvider,        \* the provider argument
    catPc,              \* "start" | "await" (the fetch is in flight) | "done"
    catRequests,        \* the bodies POSTed to /api/categorize
    catResponse,        \* what the request was answered with
    catOutcome,         \* how the promise settled: [rejected, reason, value]
    \* ---- Dashboard component
    dashConnected,      \* useWallet().connected, as the Dashboard sees it
    transactions,       \* useState([]): [id, message]
    loading,            \* useState(false)
    walletAddress,      \* useState(''), text
    error,              \* useState(''), text
    aiCategorizing,     \* useState(false)
    aiProvider,         \* useState('gemini')
    aiCategories,       \* useState([]): [category, transactions, confidence,
                        \* reasoning, icon, color]
    pendingEffects,     \* the effects the last commit scheduled, not yet run
    connects,           \* wallet connections so far
    addrExecs,          \* getWalletAddress executions awaiting getUsedAddresses
    fetchExecs,         \* fetchBlockchainTransactions executions awaiting the
                        \* address's transactions
    catExecs,           \* categorizeByMessagesWithAI executions awaiting
                        \* categorizeTransactionsWithAI: [txsWithMessages,
                        \* messages, provider]
    lastRequest,        \* the last call of categorizeTransactionsWithAI:
                        \* [issued, messages, provider]
    lastAnswer,         \* the kind of answer the last answered request got
    \* ---- pages/api/categorize.ts: one request to the route
    apiMethod,          \* req.method
    apiBody,            \* req.body: [messages, provider]
    apiEnv,             \* the API keys process.env holds
    apiPc,              \* "start" | "upstream" (a provider call is awaited) | "done"
    apiUpstream,        \* the calls made to the providers: [endpoint, key]
    apiReply            \* what res.status(..).json(..) sent: [status, body]

amountVars == <<utxos, address, amountPc, fetchOk, amount>>

formVars == <<recipientAddress, sendAmount, sendMessage>>

homeVars == <<connected, formVars, sendLoading, sendStatus, txHash, sentMessage,
              sendExecs, store, clock, sends, budget, failBudget, failedSaves,
              saved, ended, lastError, lastAttempt>>

catVars == <<catMessages, catProvider, catPc, catRequests, catResponse, catOutcome>>

dashVars == <<dashConnected, transactions, loading, walletAddress, error,
              aiCategorizing, aiProvider, aiCategories, pendingEffects, connects,
              addrExecs, fetchExecs, catExecs, lastRequest, lastAnswer>>

apiVars == <<apiMethod, apiBody, apiEnv, apiPc, apiUpstream, apiReply>>

vars == <<amountVars, homeVars, catVars, dashVars, apiVars>>

\* What the actions of one part leave alone.
notAmount == <<homeVars, catVars, dashVars, apiVars>>

notHome == <<amountVars, catVars, dashVars, apiVars>>

notCat == <<amountVars, homeVars, dashVars, apiVars>>

notDash == <<amountVars, homeVars, catVars, apiVars>>

notApi == <<amountVars, homeVars, catVars, dashVars>>

-----------------------------------------------------------------------------
(* Generic helpers *)

Abs(n) == IF n < 0 THEN -n ELSE n

\* Array.prototype.find: the first element of s whose test result is true
\* (test[i] is the callback's result on s[i]), or none.
FindFirst(s, test) ==
    LET hits == {i \in 1..Len(s) : test[i]}
    IN  IF hits = {} THEN <<>>
        ELSE <<s[CHOOSE i \in hits : \A j \in hits : i <= j]>>

DigitValue(c) ==
    CASE c = "0" -> 0 [] c = "1" -> 1 [] c = "2" -> 2 [] c = "3" -> 3 [] c = "4" -> 4
      [] c = "5" -> 5 [] c = "6" -> 6 [] c = "7" -> 7 [] c = "8" -> 8 [] c = "9" -> 9

\* parseInt of a decimal digit string (a sequence of the characters "0".."9").
RECURSIVE ParseInt(_)
ParseInt(digits) ==
    IF digits = <<>> THEN 0
    ELSE 10 * ParseInt(SubSeq(digits, 1, Len(digits) - 1))
         + DigitValue(digits[Len(digits)])

\* All sequences over S of length at most n.
SeqsUpTo(S, n) == UNION {[1..k -> S] : k \in 0..n}

-----------------------------------------------------------------------------
(* Blockchain utilities: the net amount of a transaction for an address *)

MaxUtxos == 2

LovelacePerAda == 1000000

Addresses == {"addr_test1_A", "addr_test1_B"}

\* The amount lists of a UTXO entry: one entry per unit, lovelace at any
\* position or missing.
AmountLists ==
    { <<[unit |-> "lovelace", quantity |-> <<"1", "5", "0", "0", "0", "0", "0">>]>>,
      <<[unit |-> "token_x", quantity |-> <<"7">>],
        [unit |-> "lovelace", quantity |-> <<"2", "0", "0", "0", "0", "0", "0">>]>>,
      <<[unit |-> "token_x", quantity |-> <<"9">>]>> }

UtxoEntries == [address : Addresses, amount : AmountLists]

IsLovelace(a) == a.unit = "lovelace"

\* One loop body of calculateAccurateTransactionAmount: what entry adds to
\* the running sum for addr.
EntryLovelace(entry, addr) ==
    IF entry.address = addr
    THEN LET adaAmount == FindFirst(entry.amount, [k \in DOMAIN entry.amount |-> IsLovelace(entry.amount[k])])
         IN  IF adaAmount # <<>> THEN ParseInt(adaAmount[1].quantity) ELSE 0
    ELSE 0

RECURSIVE SumLovelace(_, _)
SumLovelace(entries, addr) ==
    IF entries = <<>> THEN 0
    ELSE EntryLovelace(Head(entries), addr) + SumLovelace(Tail(entries), addr)

\* (n / 1_000_000).toString(): the number in ADA, as whole ADA and millionths.
ToAda(lovelace) ==
    [whole |-> lovelace \div LovelacePerAda, micro |-> lovelace % LovelacePerAda]

\* The same calculation without Math.abs.
NetAmountSigned(u, addr) ==
    LET receivedAmount == SumLovelace(u.outputs, addr)
        spentAmount == SumLovelace(u.inputs, addr)
    IN  ToAda(receivedAmount - spentAmount)

calculateAccurateTransactionAmount(u, addr) ==
    LET receivedAmount == SumLovelace(u.outputs, addr)
        spentAmount == SumLovelace(u.inputs, addr)
        netAmount == receivedAmount - spentAmount
    IN  ToAda(Abs(netAmount))

\* localStorage.getItem answers null (present = FALSE) or the stored JSON text,
\* here the list it parses to.
NoItem == [present |-> FALSE, list |-> <<>>]

\* Thrown values: an Error with a message, or another value (the wallet
\* rejecting with a plain object).
NoError == [thrown |-> FALSE, isError |-> FALSE, message |-> <<>>]

\* No invocation has ended yet.
NoAttempt ==
    [req |-> [recipient |-> <<>>, amount |-> <<>>, message |-> <<>>],
     lovelace |-> -1, calls |-> <<>>, statuses |-> <<>>]

HomeIdle ==
    /\ connected = FALSE
    /\ recipientAddress = <<>> /\ sendAmount = <<>> /\ sendMessage = <<>>
    /\ sendLoading = FALSE
    /\ sendStatus = <<>>
    /\ txHash = ""
    /\ sentMessage = <<>>
    /\ sendExecs = <<>>
    /\ store = NoItem
    /\ clock = 1
    /\ sends = 0
    /\ budget = 0
    /\ failBudget = 0
    /\ failedSaves = 0
    /\ saved = <<>>
    /\ ended = 0
    /\ lastError = NoError
    /\ lastAttempt = NoAttempt

\* No response (yet).
NoResponse == [kind |-> "none", status |-> 0, error |-> <<>>, data |-> <<>>]

CatIdle ==
    /\ catMessages = <<>>
    /\ catProvider = "gemini"
    /\ catPc = "done"
    /\ catRequests = <<>>
    /\ catResponse = NoResponse
    /\ catOutcome = [rejected |-> FALSE, reason |-> NoError, value |-> <<>>]

\* No call of categorizeTransactionsWithAI yet.
NoRequest == [issued |-> FALSE, messages |-> <<>>, provider |-> ""]

\* The Dashboard as it mounts.
DashIdle ==
    /\ dashConnected = FALSE
    /\ transactions = <<>>
    /\ loading = FALSE
    /\ walletAddress = ""
    /\ error = <<>>
    /\ aiCategorizing = FALSE
    /\ aiProvider = "gemini"
    /\ aiCategories = <<>>
    /\ pendingEffects = {}
    /\ connects = 0
    /\ addrExecs = 0
    /\ fetchExecs = 0
    /\ catExecs = <<>>
    /\ lastRequest = NoRequest
    /\ lastAnswer = NoResponse

\* Nothing sent by the route (yet).
NoReply == [status |-> 0, success |-> FALSE, error |-> "", dataKind |-> "none", data |-> <<>>]

ApiIdle ==
    /\ apiMethod = "POST"
    /\ apiBody = [messagesKind |-> "array", messages |-> <<>>, provider |-> ""]
    /\ apiEnv = {}
    /\ apiPc = "done"
    /\ apiUpstream = <<>>
    /\ apiReply = NoReply

AmountIdle ==
    /\ utxos = [inputs |-> <<>>, outputs |-> <<>>]
    /\ address = "addr_test1_A"
    /\ amountPc = "done"
    /\ fetchOk = TRUE
    /\ amount = ToAda(0)

InitAmount ==
    /\ HomeIdle
    /\ CatIdle
    /\ DashIdle
    /\ ApiIdle
    /\ utxos \in [inputs : SeqsUpTo(UtxoEntries, MaxUtxos),
                  outputs : SeqsUpTo(UtxoEntries, MaxUtxos)]
    /\ address \in Addresses
    /\ amountPc = "start"
    /\ fetchOk = TRUE
    /\ amount = ToAda(0)

\* fetchTransactionUTXOs returned: both loops run and the amount is returned.
CalculateAmount ==
    /\ amountPc = "start"
    /\ amount' = calculateAccurateTransactionAmount(utxos, address)
    /\ fetchOk' = TRUE
    /\ amountPc' = "done"
    /\ UNCHANGED <<utxos, address>>
    /\ UNCHANGED notAmount

\* fetchTransactionUTXOs threw: the catch block returns '0'.
CalculateAmountFetchFailed ==
    /\ amountPc = "start"
    /\ amount' = ToAda(0)
    /\ fetchOk' = FALSE
    /\ amountPc' = "done"
    /\ UNCHANGED <<utxos, address>>
    /\ UNCHANGED notAmount

NextAmount ==
    \/ CalculateAmount
    \/ CalculateAmountFetchFailed

SpecAmount == InitAmount /\ [][NextAmount]_vars

\* Independent statement of the sums: over the positions whose address is the
\* target and that carry a lovelace entry.
LovelaceAt(entry) ==
    LET idx == {i \in 1..Len(entry.amount) : entry.amount[i].unit = "lovelace"}
    IN  IF idx = {} THEN 0
        ELSE ParseInt(entry.amount[CHOOSE i \in idx : TRUE].quantity)

RECURSIVE SumOver(_, _)
SumOver(entries, idx) ==
    IF idx = {} THEN 0
    ELSE LET i == CHOOSE j \in idx : TRUE
         IN  LovelaceAt(entries[i]) + SumOver(entries, idx \ {i})

ReceivedBy(addr) ==
    SumOver(utxos.outputs, {i \in 1..Len(utxos.outputs) : utxos.outputs[i].address = addr})

SpentBy(addr) ==
    SumOver(utxos.inputs, {i \in 1..Len(utxos.inputs) : utxos.inputs[i].address = addr})

\* C1: once the UTXO set was fetched, the reported amount is |R - S| in ADA,
\* R the lovelace of the outputs paid to the target address and S the lovelace
\* of the inputs spent from it; other addresses and other units do not count.
C1_NetAmountIsAbsDifference ==
    (amountPc = "done" /\ fetchOk) =>
        LET d == ReceivedBy(address) - SpentBy(address)
        IN  /\ amount.whole * LovelacePerAda + amount.micro = (IF d < 0 THEN -d ELSE d)
            /\ amount.micro \in 0..(LovelacePerAda - 1)

\* C1 witness: a calculation that netted a spend (S > R > 0) in the presence
\* of another address and of a non-lovelace unit.
C1_Witness ==
    /\ amountPc = "done" /\ fetchOk
    /\ SpentBy(address) > ReceivedBy(address)
    /\ ReceivedBy(address) > 0
    /\ \E i \in 1..Len(utxos.outputs) : utxos.outputs[i].address # address
    /\ \E i \in 1..Len(utxos.inputs) :
          \E k \in 1..Len(utxos.inputs[i].amount) :
              utxos.inputs[i].amount[k].unit # "lovelace"
    /\ amount.micro = 500000

-----------------------------------------------------------------------------
(* Home page: the local history log (saveTransaction) *)

HistoryCap == 100

Item(list) == [present |-> TRUE, list |-> list]

\* The stored form of an entry; an undefined field (message, errorMessage,
\* txHash) is dropped by JSON.stringify and is modelled by the empty text.
HistoryEntry(now, transaction) ==
    [id |-> now, timestamp |-> now, network |-> "preprod",
     amount |-> transaction.amount, recipient |-> transaction.recipient,
     message |-> transaction.message, status |-> transaction.status,
     errorMessage |-> transaction.errorMessage, txHash |-> transaction.txHash]

\* saveTransaction with the cap test off by one.
saveTransactionCapOffByOne(stored, transaction, now) ==
    LET list == IF stored.present THEN stored.list ELSE <<>>
        unshifted == <<HistoryEntry(now, transaction)>> \o list
    IN  Item(IF Len(unshifted) > HistoryCap + 1
             THEN SubSeq(unshifted, 1, HistoryCap)
             ELSE unshifted)

\* saveTransaction appending (push) instead of unshift.
saveTransactionPush(stored, transaction, now) ==
    LET list == IF stored.present THEN stored.list ELSE <<>>
        pushed == Append(list, HistoryEntry(now, transaction))
    IN  Item(IF Len(pushed) > HistoryCap
             THEN SubSeq(pushed, 1, HistoryCap)
             ELSE pushed)

\* saveTransaction: the new value of the localStorage item.
saveTransaction(stored, transaction, now) ==
    LET list == IF stored.present THEN stored.list ELSE <<>>
        unshifted == <<HistoryEntry(now, transaction)>> \o list
    IN  Item(IF Len(unshifted) > HistoryCap
             THEN SubSeq(unshifted, 1, HistoryCap)
             ELSE unshifted)

-----------------------------------------------------------------------------
(* Home page: sendAda *)

MaxSends == 2

Chars(n, c) == [i \in 1..n |-> c]

AddrTestPrefix == <<"a", "d", "d", "r", "_", "t", "e", "s", "t", "1">>

AddrMainPrefix == <<"a", "d", "d", "r", "1">>

\* What the recipient field may hold.
RecipientTexts == {<<>>, AddrTestPrefix \o <<"q">>, AddrMainPrefix \o <<"q">>}

\* What the amount field (input type="number") may hold: empty or a number.
AmountTexts == {<<>>, <<"0">>, <<"-", "1">>, <<"5">>}

MessageTexts == {<<>>, <<"g", "m">>}

\* startsWith testing the first four characters only.
StartsWithFour(text, prefix) ==
    /\ Len(text) >= 4
    /\ SubSeq(text, 1, 4) = SubSeq(prefix, 1, 4)

\* String.prototype.startsWith
StartsWith(text, prefix) ==
    /\ Len(text) >= Len(prefix)
    /\ SubSeq(text, 1, Len(prefix)) = prefix

\* String.prototype.includes, on message fragments
Includes(text, needle) == \E i \in 1..Len(text) : text[i] = needle

\* String.prototype.trim
RECURSIVE TrimLeft(_)
TrimLeft(text) ==
    IF text # <<>> /\ Head(text) = " " THEN TrimLeft(Tail(text)) ELSE text

RECURSIVE TrimRight(_)
TrimRight(text) ==
    IF text # <<>> /\ text[Len(text)] = " "
    THEN TrimRight(SubSeq(text, 1, Len(text) - 1))
    ELSE text

Trim(text) == TrimRight(TrimLeft(text))

\* parseFloat of the amount field: an optional sign and digits (whole ADA).
ParseFloat(text) ==
    IF text # <<>> /\ Head(text) = "-" THEN 0 - ParseInt(Tail(text))
    ELSE ParseInt(text)

Error(message) == [thrown |-> TRUE, isError |-> TRUE, message |-> message]

NonError == [thrown |-> TRUE, isError |-> FALSE, message |-> <<"User declined">>]

InvalidAddressError ==
    Error(<<"Invalid preprod address format. Address must start with \"addr_test1\"">>)

AmountError == Error(<<"Amount must be greater than 0">>)

NoBalanceError == Error(<<"Unable to retrieve wallet balance">>)

InsufficientBalanceError ==
    Error(<<"Insufficient balance. ", "(including ~2 ADA for fees)">>)

\* What the wallet and the transaction builder may throw.
GetBalanceThrows == {Error(<<"wallet unavailable">>)}

BuildThrows == {Error(<<"tx build: ", "UTxO Fully Depleted">>)}

SignTxThrows == {NonError, Error(<<"User declined", " to sign">>)}

SubmitTxThrows == {Error(<<"submit: ", "insufficient funds">>)}

\* What wallet.getBalance may answer.
WalletBalances ==
    { <<>>,
      <<[unit |-> "lovelace", quantity |-> <<"6">> \o Chars(6, "9")]>>,
      <<[unit |-> "token_x", quantity |-> <<"1">>],
        [unit |-> "lovelace", quantity |-> <<"7">> \o Chars(6, "0")]>> }

TxHashes == {"txhash_1"}

\* The Send ADA button's disabled attribute, negated; the card is rendered
\* only while connected.
SendButtonNoLoadingTest ==
    /\ connected
    /\ recipientAddress # <<>>
    /\ sendAmount # <<>>

SendButtonEnabled ==
    /\ connected
    /\ ~(sendLoading \/ recipientAddress = <<>> \/ sendAmount = <<>>)

\* The catch block's choice of message.
ErrorMessage(err) ==
    IF err.isError
    THEN IF Includes(err.message, "UTxO Fully Depleted")
         THEN <<"Insufficient funds. Please ensure you have enough ADA to cover the transaction amount plus network fees (~2 ADA).">>
         ELSE IF Includes(err.message, "insufficient funds")
         THEN <<"Insufficient funds in your wallet.">>
         ELSE IF Includes(err.message, "User declined")
         THEN <<"Transaction was cancelled by user.">>
         ELSE err.message
    ELSE <<"Transaction failed">>

\* `Error: ${errorMessage}`
ErrorStatus(errorMessage) == <<"Error: ">> \o errorMessage

FailedTransaction(req, errorMessage) ==
    [amount |-> req.amount, recipient |-> req.recipient, message |-> req.message,
     status |-> "failed", errorMessage |-> errorMessage, txHash |-> ""]

SuccessfulTransaction(req, hash) ==
    [amount |-> req.amount, recipient |-> req.recipient, message |-> req.message,
     status |-> "success", errorMessage |-> <<>>, txHash |-> hash]

\* The catch block without the finally block.
SendAdaCatchNoFinally(req, err) ==
    /\ sendStatus' = ErrorStatus(ErrorMessage(err))
    /\ store' = saveTransaction(store, FailedTransaction(req, ErrorMessage(err)), clock)
    /\ saved' = Append(saved, [now |-> clock,
                               transaction |-> FailedTransaction(req, ErrorMessage(err))])
    /\ clock' = clock + 1
    /\ failedSaves' = failedSaves + 1
    /\ sendLoading' = TRUE

\* The catch and finally blocks without the call of saveTransaction.
SendAdaCatchNoSave(req, err) ==
    /\ sendStatus' = ErrorStatus(ErrorMessage(err))
    /\ failedSaves' = failedSaves + 1
    /\ sendLoading' = FALSE
    /\ UNCHANGED <<store, saved, clock>>

\* sendAda's catch and finally blocks, for the execution with closure req.
SendAdaCatch(req, err) ==
    /\ sendStatus' = ErrorStatus(ErrorMessage(err))
    /\ store' = saveTransaction(store, FailedTransaction(req, ErrorMessage(err)), clock)
    /\ saved' = Append(saved, [now |-> clock,
                               transaction |-> FailedTransaction(req, ErrorMessage(err))])
    /\ clock' = clock + 1
    /\ failedSaves' = failedSaves + 1
    /\ sendLoading' = FALSE

\* The invocation ends having thrown err (NoError: it returned), its last
\* status being status.
Ended(err, exec, status) ==
    /\ ended' = ended + 1
    /\ lastError' = err
    /\ lastAttempt' = [req |-> exec.req, lovelace |-> exec.lovelace,
                       calls |-> exec.calls,
                       statuses |-> Append(exec.statuses, status)]

\* The form values a sendAda closure reads.
Closure == [recipient |-> recipientAddress, amount |-> sendAmount, message |-> sendMessage]

\* A sendAda execution as it starts: setSendStatus("Validating transaction...").
Started ==
    [pc |-> "validate", req |-> Closure, lovelace |-> -1, calls |-> <<>>,
     statuses |-> << <<"Validating transaction...">> >>]

RemoveAt(s, i) == SubSeq(s, 1, i - 1) \o SubSeq(s, i + 1, Len(s))

\* A click on Send ADA: sendAda up to its first await. A validation error is
\* thrown and caught within the click.
SendAdaClick ==
    /\ SendButtonEnabled
    /\ sends < budget
    /\ recipientAddress # <<>> /\ sendAmount # <<>>
    /\ sends' = sends + 1
    /\ txHash' = ""
    /\ IF ~StartsWith(recipientAddress, AddrTestPrefix)
       THEN /\ SendAdaCatch(Closure, InvalidAddressError)
            /\ Ended(InvalidAddressError, Started, ErrorStatus(ErrorMessage(InvalidAddressError)))
            /\ UNCHANGED sendExecs
       ELSE IF ParseFloat(sendAmount) <= 0
       THEN /\ SendAdaCatch(Closure, AmountError)
            /\ Ended(AmountError, Started, ErrorStatus(ErrorMessage(AmountError)))
            /\ UNCHANGED sendExecs
       ELSE /\ sendLoading' = TRUE
            /\ sendStatus' = <<"Checking balance...">>
            /\ sendExecs' = Append(sendExecs,
                                   [Started EXCEPT !.pc = "getBalance",
                                                   !.calls = <<"getBalance">>,
                                                   !.statuses = Append(@, <<"Checking balance...">>)])
            /\ UNCHANGED <<store, clock, failedSaves, saved, ended, lastError, lastAttempt>>
    /\ UNCHANGED <<connected, formVars, sentMessage, budget, failBudget>>
    /\ UNCHANGED notHome

\* The balance check with minRequired = sendAmountNum, nothing kept for fees.
BalanceTooLowNoFees(lovelace, sendAmountNum) ==
    lovelace < sendAmountNum * LovelacePerAda

\* balanceInAda < minRequired, with balanceInAda = lovelace / 1_000_000 and
\* minRequired = sendAmountNum + 2.
BalanceTooLow(lovelace, sendAmountNum) ==
    lovelace < (sendAmountNum + 2) * LovelacePerAda

\* wallet.getBalance() answered walletBalance: the balance check, then the
\* transaction is set up and tx.build() is awaited.
GetBalanceReturned(i, walletBalance) ==
    LET req == sendExecs[i].req
        adaBalance == FindFirst(walletBalance, [k \in DOMAIN walletBalance |-> IsLovelace(walletBalance[k])])
    IN  /\ sendExecs[i].pc = "getBalance"
        /\ IF adaBalance = <<>>
           THEN /\ SendAdaCatch(req, NoBalanceError)
                /\ Ended(NoBalanceError, sendExecs[i], ErrorStatus(ErrorMessage(NoBalanceError)))
                /\ sendExecs' = RemoveAt(sendExecs, i)
           ELSE IF BalanceTooLow(ParseInt(adaBalance[1].quantity), ParseFloat(req.amount))
           THEN /\ SendAdaCatch(req, InsufficientBalanceError)
                /\ Ended(InsufficientBalanceError,
                         [sendExecs[i] EXCEPT !.lovelace = ParseInt(adaBalance[1].quantity)],
                         ErrorStatus(ErrorMessage(InsufficientBalanceError)))
                /\ sendExecs' = RemoveAt(sendExecs, i)
           ELSE /\ sendStatus' = <<"Building transaction...">>
                /\ sendExecs' = [sendExecs EXCEPT ![i].pc = "build",
                                                  ![i].lovelace = ParseInt(adaBalance[1].quantity),
                                                  ![i].calls = Append(@, "build"),
                                                  ![i].statuses = Append(@, <<"Building transaction...">>)]
                /\ UNCHANGED <<store, clock, failedSaves, sendLoading, saved, ended,
                               lastError, lastAttempt>>
        /\ UNCHANGED <<connected, formVars, txHash, sentMessage, sends, budget,
                       failBudget>>
        /\ UNCHANGED notHome

\* An awaited call of execution i threw error.
AwaitThrew(i, awaited, err) ==
    /\ sendExecs[i].pc = awaited
    /\ SendAdaCatch(sendExecs[i].req, err)
    /\ Ended(err, sendExecs[i], ErrorStatus(ErrorMessage(err)))
    /\ sendExecs' = RemoveAt(sendExecs, i)
    /\ UNCHANGED <<connected, formVars, txHash, sentMessage, sends, budget,
                   failBudget>>
    /\ UNCHANGED notHome

\* An awaited call of execution i returned: the next status is shown and the
\* next call is awaited.
AwaitReturned(i, awaited, status, next) ==
    /\ sendExecs[i].pc = awaited
    /\ sendStatus' = status
    /\ sendExecs' = [sendExecs EXCEPT ![i].pc = next,
                                      ![i].calls = Append(@, next),
                                      ![i].statuses = Append(@, status)]
    /\ UNCHANGED <<connected, formVars, sendLoading, txHash, sentMessage, store,
                   clock, sends, budget, failBudget, failedSaves, saved, ended,
                   lastError, lastAttempt>>
    /\ UNCHANGED notHome

GetBalanceThrew(i) == \E e \in GetBalanceThrows : AwaitThrew(i, "getBalance", e)

\* tx.build() returned and submitTx is called next, signTx left out.
BuildReturnedNoSignTx(i) ==
    AwaitReturned(i, "build", <<"Submitting transaction...">>, "submitTx")

BuildReturned(i) == AwaitReturned(i, "build", <<"Waiting for signature...">>, "signTx")

BuildThrew(i) == \E e \in BuildThrows : AwaitThrew(i, "build", e)

SignTxReturned(i) == AwaitReturned(i, "signTx", <<"Submitting transaction...">>, "submitTx")

SignTxThrew(i) == \E e \in SignTxThrows : AwaitThrew(i, "signTx", e)

SubmitTxThrew(i) == \E e \in SubmitTxThrows : AwaitThrew(i, "submitTx", e)

\* wallet.submitTx returned hash: the success path, then finally.
SubmitTxReturned(i, hash) ==
    LET req == sendExecs[i].req
    IN  /\ sendExecs[i].pc = "submitTx"
        /\ txHash' = hash
        /\ sentMessage' = req.message
        /\ sendStatus' = <<"success">>
        /\ store' = saveTransaction(store, SuccessfulTransaction(req, hash), clock)
        /\ saved' = Append(saved, [now |-> clock,
                                   transaction |-> SuccessfulTransaction(req, hash)])
        /\ clock' = clock + 1
        /\ recipientAddress' = <<>>
        /\ sendAmount' = <<>>
        /\ sendMessage' = <<>>
        /\ sendLoading' = FALSE
        /\ Ended(NoError, sendExecs[i], <<"success">>)
        /\ sendExecs' = RemoveAt(sendExecs, i)
        /\ UNCHANGED <<connected, sends, budget, failBudget, failedSaves>>
        /\ UNCHANGED notHome

homeRest == <<connected, sendLoading, sendStatus, txHash, sentMessage, sendExecs,
              store, clock, sends, budget, failBudget, failedSaves, saved, ended,
              lastError, lastAttempt>>

\* onChange of the three form fields.
SetRecipientAddress(v) ==
    /\ connected
    /\ recipientAddress' = v
    /\ UNCHANGED <<sendAmount, sendMessage, homeRest>>
    /\ UNCHANGED notHome

SetSendAmount(v) ==
    /\ connected
    /\ sendAmount' = v
    /\ UNCHANGED <<recipientAddress, sendMessage, homeRest>>
    /\ UNCHANGED notHome

SetSendMessage(v) ==
    /\ connected
    /\ sendMessage' = v
    /\ UNCHANGED <<recipientAddress, sendAmount, homeRest>>
    /\ UNCHANGED notHome

\* The wallet connects: the effect on [connected, wallet] calls getAssets,
\* which touches only assets, balance, balanceError and loading.
WalletConnected ==
    /\ ~connected
    /\ connected' = TRUE
    /\ UNCHANGED <<formVars, sendLoading, sendStatus, txHash, sentMessage,
                   sendExecs, store, clock, sends, budget, failBudget, failedSaves,
                   saved, ended, lastError, lastAttempt>>
    /\ UNCHANGED notHome

\* The wallet disconnects: the effect resets the page's state.
WalletDisconnected ==
    /\ connected
    /\ connected' = FALSE
    /\ sendStatus' = <<>>
    /\ txHash' = ""
    /\ sentMessage' = <<>>
    /\ recipientAddress' = <<>>
    /\ sendAmount' = <<>>
    /\ sendMessage' = <<>>
    /\ UNCHANGED <<sendLoading, sendExecs, store, clock, sends, budget,
                   failBudget, failedSaves, saved, ended, lastError, lastAttempt>>
    /\ UNCHANGED notHome

\* An entry an earlier session left in the log.
OldEntry(i) ==
    HistoryEntry(0 - i, [amount |-> <<"5">>, recipient |-> AddrTestPrefix \o <<"q">>,
                         message |-> <<>>, status |-> "success",
                         errorMessage |-> <<>>, txHash |-> "txhash_0"])

StoredList(n) == [i \in 1..n |-> OldEntry(i)]

\* The Home page after construction, over a log of an earlier session.
InitSend ==
    /\ AmountIdle
    /\ CatIdle
    /\ DashIdle
    /\ ApiIdle
    /\ connected = FALSE
    /\ recipientAddress = <<>> /\ sendAmount = <<>> /\ sendMessage = <<>>
    /\ sendLoading = FALSE
    /\ sendStatus = <<>>
    /\ txHash = ""
    /\ sentMessage = <<>>
    /\ sendExecs = <<>>
    /\ store = NoItem
    /\ clock = 1
    /\ sends = 0
    /\ budget = MaxSends
    /\ failBudget = MaxSends
    /\ failedSaves = 0
    /\ saved = <<>>
    /\ ended = 0
    /\ lastError = NoError
    /\ lastAttempt = NoAttempt

NextSend ==
    \/ SendAdaClick
    \/ \E i \in 1..Len(sendExecs) : \E b \in WalletBalances : GetBalanceReturned(i, b)
    \/ \E i \in 1..Len(sendExecs) : GetBalanceThrew(i)
    \/ \E i \in 1..Len(sendExecs) : BuildReturned(i)
    \/ \E i \in 1..Len(sendExecs) : BuildThrew(i)
    \/ \E i \in 1..Len(sendExecs) : SignTxReturned(i)
    \/ \E i \in 1..Len(sendExecs) : SignTxThrew(i)
    \/ \E i \in 1..Len(sendExecs) : \E h \in TxHashes : SubmitTxReturned(i, h)
    \/ \E i \in 1..Len(sendExecs) : SubmitTxThrew(i)
    \/ \E v \in RecipientTexts : SetRecipientAddress(v)
    \/ \E v \in AmountTexts : SetSendAmount(v)
    \/ \E v \in MessageTexts : SetSendMessage(v)
    \/ WalletConnected
    \/ WalletDisconnected

SpecSend == InitSend /\ [][NextSend]_vars

-----------------------------------------------------------------------------
(* The history log on its own: sendAda's two saveTransaction calls *)

MaxSaves == 5

MaxRolling == 102

MaxFailed == 1

\* The form values of the sends whose saves the history specifications replay.
HistoryReq ==
    [recipient |-> AddrTestPrefix \o <<"q">>, amount |-> <<"5">>, message |-> <<>>]

historyRest == <<connected, formVars, sendLoading, sendStatus, txHash, sentMessage,
                 sendExecs, budget, failBudget, ended, lastError, lastAttempt>>

\* The saveTransaction call of a send that succeeded.
SaveSuccessful ==
    /\ sends < budget
    /\ store' = saveTransaction(store, SuccessfulTransaction(HistoryReq, "txhash_1"), clock)
    /\ saved' = Append(saved, [now |-> clock,
                               transaction |-> SuccessfulTransaction(HistoryReq, "txhash_1")])
    /\ clock' = clock + 1
    /\ sends' = sends + 1
    /\ UNCHANGED <<failedSaves, historyRest>>
    /\ UNCHANGED notHome

\* The saveTransaction call of a send that failed.
SaveFailed ==
    /\ sends < budget
    /\ failedSaves < failBudget
    /\ store' = saveTransaction(store, FailedTransaction(HistoryReq, ErrorMessage(NonError)), clock)
    /\ saved' = Append(saved, [now |-> clock,
                               transaction |-> FailedTransaction(HistoryReq, ErrorMessage(NonError))])
    /\ clock' = clock + 1
    /\ sends' = sends + 1
    /\ failedSaves' = failedSaves + 1
    /\ UNCHANGED historyRest
    /\ UNCHANGED notHome

HistoryStart ==
    /\ AmountIdle
    /\ CatIdle
    /\ DashIdle
    /\ ApiIdle
    /\ connected = TRUE
    /\ recipientAddress = <<>> /\ sendAmount = <<>> /\ sendMessage = <<>>
    /\ sendLoading = FALSE
    /\ sendStatus = <<>>
    /\ txHash = ""
    /\ sentMessage = <<>>
    /\ sendExecs = <<>>
    /\ clock = 1
    /\ sends = 0
    /\ failedSaves = 0
    /\ saved = <<>>
    /\ ended = 0
    /\ lastError = NoError
    /\ lastAttempt = NoAttempt

\* Any stored list of at most HistoryCap entries: none, empty, one below the
\* cap, at the cap.
InitHistory ==
    /\ HistoryStart
    /\ store \in {NoItem, Item(<<>>), Item(StoredList(HistoryCap - 1)),
                  Item(StoredList(HistoryCap))}
    /\ budget = MaxSaves
    /\ failBudget = MaxSaves

\* An empty store, and enough saves to pass the cap.
InitRolling ==
    /\ HistoryStart
    /\ store \in {NoItem, Item(<<>>)}
    /\ budget = MaxRolling
    /\ failBudget = MaxFailed

NextHistory ==
    \/ SaveSuccessful
    \/ SaveFailed

SpecHistory == InitHistory /\ [][NextHistory]_vars

SpecRolling == InitRolling /\ [][NextHistory]_vars

-----------------------------------------------------------------------------
(* Claims about the Home page *)

\* C2: whatever list of at most 100 entries the store starts from, after any
\* sequence of saveTransaction calls the stored history holds at most 100
\* entries.
C2_HistoryCapped ==
    store.present => Len(store.list) <= HistoryCap

\* C2 witness: two saves onto a full list: the list is still at the cap, its
\* two oldest entries are gone and the two new ones lead it.
C2_Witness ==
    /\ sends = 2
    /\ Len(store.list) = HistoryCap
    /\ store.list[HistoryCap].id = 2 - HistoryCap
    /\ store.list[1].id = 2 /\ store.list[2].id = 1

\* C3: after n saves onto an empty store the list is the last min(n, 100)
\* saved entries, newest first: the entry at index i is the (n - i + 1)-th
\* save, so what the cap drops is always the oldest.
C3_NewestFirstRolling ==
    LET n == Len(saved)
    IN  /\ n = sends
        /\ n > 0 => store.present
        /\ Len(store.list) = (IF n < HistoryCap THEN n ELSE HistoryCap)
        /\ \A i \in 1..Len(store.list) :
              store.list[i] = HistoryEntry(saved[n - i + 1].now, saved[n - i + 1].transaction)

\* C3 witness: 102 saves, one of them a failure that is still in the list;
\* the first two saves have been dropped.
C3_Witness ==
    /\ Len(saved) = HistoryCap + 2
    /\ Len(store.list) = HistoryCap
    /\ store.list[HistoryCap].id = saved[3].now
    /\ \E i \in 2..HistoryCap : store.list[i].status = "failed"

C5_FailuresCaught ==
    [][(ended' = ended + 1 /\ lastError'.thrown) =>
          /\ Len(sendStatus') >= 2
          /\ Head(sendStatus') = "Error: "
          /\ sendStatus' # <<"success">>
          /\ ~sendLoading'
          /\ Len(saved') = Len(saved) + 1
          /\ saved'[Len(saved')].transaction.status = "failed"]_vars

\* C5 witness: the wallet refused the signature with a value that is no
\* Error; the page shows the fallback message and is idle again.
C5_Witness ==
    /\ lastError = NonError
    /\ ended = 1
    /\ sendStatus = <<"Error: ", "Transaction failed">>
    /\ ~sendLoading
    /\ sendExecs = <<>>

\* The lovelace a send of the amount text needs: the amount plus 2 ADA.
Needed(amountText) == (ParseFloat(amountText) + 2) * LovelacePerAda

PastBalanceCheck == {"build", "signTx", "submitTx"}

\* C11: a sendAda attempt gets to tx.build(), signTx or submitTx only if the
\* lovelace balance it read is at least the send amount plus 2 ADA; an attempt
\* that read less ends with the 'Insufficient balance' error having called
\* nothing but getBalance.
C11_FeesReserved ==
    /\ \A i \in 1..Len(sendExecs) :
          sendExecs[i].pc \in PastBalanceCheck =>
              sendExecs[i].lovelace >= Needed(sendExecs[i].req.amount)
    /\ (\E k \in 1..Len(lastAttempt.calls) : lastAttempt.calls[k] \in PastBalanceCheck)
          => lastAttempt.lovelace >= Needed(lastAttempt.req.amount)
    /\ (lastAttempt.lovelace >= 0 /\ lastAttempt.lovelace < Needed(lastAttempt.req.amount))
          => /\ lastAttempt.calls = <<"getBalance">>
             /\ lastAttempt.statuses[Len(lastAttempt.statuses)]
                    = ErrorStatus(InsufficientBalanceError.message)
             /\ lastError = InsufficientBalanceError

\* C11 witness: a send of 5 ADA from a wallet holding 6.999999 ADA has ended
\* with the 'Insufficient balance' error.
C11_Witness ==
    /\ lastAttempt.req.amount = <<"5">>
    /\ lastAttempt.lovelace = 6999999
    /\ lastAttempt.calls = <<"getBalance">>
    /\ sendStatus = ErrorStatus(InsufficientBalanceError.message)
    /\ ended = 1

\* The calls of an attempt that got to the end of the try block.
AllCalls == <<"getBalance", "build", "signTx", "submitTx">>

ProgressStatuses ==
    << <<"Validating transaction...">>, <<"Checking balance...">>,
       <<"Building transaction...">>, <<"Waiting for signature...">>,
       <<"Submitting transaction...">> >>

\* Address and amount validation pass for the closure.
ValidationPasses(req) ==
    /\ Len(req.recipient) >= 10
    /\ \A k \in 1..10 : req.recipient[k] = AddrTestPrefix[k]
    /\ ParseFloat(req.amount) > 0

\* The attempt made the first n of the four calls in order, set the first
\* n + 1 statuses in order, read the balance only after validation passed and
\* built only after the balance check passed.
StepsInOrder(attempt, n) ==
    /\ attempt.calls = SubSeq(AllCalls, 1, n)
    /\ SubSeq(attempt.statuses, 1, n + 1) = SubSeq(ProgressStatuses, 1, n + 1)
    /\ n >= 1 => ValidationPasses(attempt.req)
    /\ n >= 2 => attempt.lovelace >= Needed(attempt.req.amount)

C17_InvalidInputNoWalletCall ==
    /\ [](\A i \in 1..Len(sendExecs) : ValidationPasses(sendExecs[i].req))
    /\ [][(sends' = sends + 1 /\ ~ValidationPasses(Closure)) =>
            /\ sendExecs' = sendExecs
            /\ ended' = ended + 1
            /\ lastAttempt'.req = Closure
            /\ lastAttempt'.calls = <<>>
            /\ lastAttempt'.lovelace = -1
            /\ lastError' \in {InvalidAddressError, AmountError}
            /\ sendStatus' = ErrorStatus(lastError'.message)
            /\ ~sendLoading']_vars

\* C17 witness: a send of -1 ADA to a preprod address has ended with the
\* status 'Error: Amount must be greater than 0' without a wallet call.
C17_Witness ==
    /\ ended = 1
    /\ lastAttempt.req.amount = <<"-", "1">>
    /\ StartsWith(lastAttempt.req.recipient, AddrTestPrefix)
    /\ lastAttempt.calls = <<>>
    /\ sendStatus = <<"Error: ", "Amount must be greater than 0">>
    /\ sendExecs = <<>>

-----------------------------------------------------------------------------
(* utils/aiCategorization.ts: categorizeTransactionsWithAI *)

MaxMessages == 2

MaxResults == 2

AVAILABLE_CATEGORIES ==
    << [name |-> "Payments & Purchases", icon |-> "card",
        color |-> "bg-blue-100 border-blue-300 text-blue-800"],
       [name |-> "Gifts & Tips", icon |-> "gift",
        color |-> "bg-pink-100 border-pink-300 text-pink-800"],
       [name |-> "Business & Work", icon |-> "briefcase",
        color |-> "bg-indigo-100 border-indigo-300 text-indigo-800"],
       [name |-> "Family & Friends", icon |-> "family",
        color |-> "bg-yellow-100 border-yellow-300 text-yellow-800"],
       [name |-> "Food & Dining", icon |-> "plate",
        color |-> "bg-orange-100 border-orange-300 text-orange-800"],
       [name |-> "Transportation", icon |-> "car",
        color |-> "bg-green-100 border-green-300 text-green-800"],
       [name |-> "Entertainment", icon |-> "gamepad",
        color |-> "bg-purple-100 border-purple-300 text-purple-800"],
       [name |-> "Testing & Development", icon |-> "test tube",
        color |-> "bg-gray-100 border-gray-300 text-gray-800"],
       [name |-> "Other", icon |-> "speech balloon",
        color |-> "bg-gray-100 border-gray-300 text-gray-800"] >>

\* The message texts a transaction may carry (non-blank ones).
MessagePool == {<<"a">>, <<" ", "b">>}

Providers == {"gemini", "openai"}

\* One element of the data array the route answers with: an index that is or
\* is not the element's position, a category of the list or another one.
\* confidence is in hundredths.
AiResults ==
    { r \in [transactionIndex : {1, 2}, category : {"Food & Dining", "Crypto"},
             confidence : {95}, reasoning : {<<"clear">>}] :
        r.transactionIndex = 1 => r.category = "Food & Dining" }

\* What fetch('/api/categorize') may end with: a network failure, a non-2xx
\* status, a body that is no JSON, success = false (with or without an error
\* text), a data field that is no array, or success with a result list.
ApiResponses ==
    { [kind |-> "network_error", status |-> 0, error |-> <<>>, data |-> <<>>],
      [kind |-> "http_error", status |-> 500,
       error |-> <<"{\"success\":false,\"error\":\"Rate limit exceeded\"}">>, data |-> <<>>],
      [kind |-> "not_json", status |-> 200, error |-> <<>>, data |-> <<>>],
      [kind |-> "success_false", status |-> 200, error |-> <<>>, data |-> <<>>],
      [kind |-> "success_false", status |-> 200, error |-> <<"quota">>, data |-> <<>>],
      [kind |-> "bad_data", status |-> 200, error |-> <<>>, data |-> <<>>] }
    \cup [kind : {"ok"}, status : {200}, error : {<<>>},
          data : SeqsUpTo(AiResults, MaxResults)]

StatusText(status) == IF status = 500 THEN "Internal Server Error" ELSE "Bad Request"

\* What the try block throws on response (NoError: nothing).
ResponseError(response) ==
    CASE response.kind = "network_error" -> Error(<<"Failed to fetch">>)
      [] response.kind = "http_error" ->
            Error(<<"API error: ", ToString(response.status), " ",
                    StatusText(response.status), ". ">> \o response.error)
      [] response.kind = "not_json" -> Error(<<"Unexpected token < in JSON">>)
      [] response.kind = "success_false" ->
            Error(IF response.error # <<>> THEN response.error
                  ELSE <<"API request failed">>)
      [] response.kind = "bad_data" -> Error(<<"aiResults.map is not a function">>)
      [] OTHER -> NoError

\* `tx_${n}`
TransactionId(n) == "tx_" \o ToString(n)

CategoryConfig(name) ==
    LET hit == FindFirst(AVAILABLE_CATEGORIES, [k \in DOMAIN AVAILABLE_CATEGORIES |-> AVAILABLE_CATEGORIES[k].name = name])
    IN  IF hit # <<>> THEN hit[1]
        ELSE FindFirst(AVAILABLE_CATEGORIES, [k \in DOMAIN AVAILABLE_CATEGORIES |-> AVAILABLE_CATEGORIES[k].name = "Other"])[1]

\* aiResults.map(...): the AI results in the dashboard's format.
ConvertResults(aiResults) ==
    [i \in 1..Len(aiResults) |->
        LET categoryConfig == CategoryConfig(aiResults[i].category)
        IN  [transactionId |-> TransactionId(aiResults[i].transactionIndex),
             category |-> [category |-> aiResults[i].category,
                           confidence |-> aiResults[i].confidence,
                           reasoning |-> aiResults[i].reasoning,
                           icon |-> categoryConfig.icon,
                           color |-> categoryConfig.color]]]

\* The catch block's fallback: every message under "Other".
FallbackResults(messages, err) ==
    LET errorMessage == IF err.isError THEN err.message
                        ELSE <<"AI categorization failed">>
    IN  [index \in 1..Len(messages) |->
            [transactionId |-> TransactionId(index),
             category |-> [category |-> "Other", confidence |-> 0,
                           reasoning |-> <<"AI categorization failed: ">> \o errorMessage,
                           icon |-> "speech balloon",
                           color |-> "bg-gray-100 border-gray-300 text-gray-800"]]]

\* The function with the conversion outside the try block: a data field that
\* is no array rejects the promise.
categorizeSettledUnguardedMap(messages, response) ==
    IF response.kind = "bad_data"
    THEN [rejected |-> TRUE, reason |-> ResponseError(response), value |-> <<>>]
    ELSE IF ResponseError(response).thrown
    THEN [rejected |-> FALSE, reason |-> NoError, value |-> FallbackResults(messages, ResponseError(response))]
    ELSE [rejected |-> FALSE, reason |-> NoError, value |-> ConvertResults(response.data)]

\* How categorizeTransactionsWithAI settles once its request was answered.
categorizeSettled(messages, response) ==
    IF ResponseError(response).thrown
    THEN [rejected |-> FALSE, reason |-> NoError, value |-> FallbackResults(messages, ResponseError(response))]
    ELSE [rejected |-> FALSE, reason |-> NoError, value |-> ConvertResults(response.data)]

\* The body of the POST.
RequestBody(messages, provider) == [messages |-> messages, provider |-> provider]

InitCategorize ==
    /\ AmountIdle
    /\ HomeIdle
    /\ DashIdle
    /\ ApiIdle
    /\ catMessages \in SeqsUpTo(MessagePool, MaxMessages)
    /\ catProvider \in Providers
    /\ catPc = "start"
    /\ catRequests = <<>>
    /\ catResponse = NoResponse
    /\ catOutcome = [rejected |-> FALSE, reason |-> NoError, value |-> <<>>]

\* The call up to its return (no message) or its await of fetch.
CategorizeCall ==
    /\ catPc = "start"
    /\ IF Len(catMessages) = 0
       THEN /\ catPc' = "done"
            /\ catOutcome' = [rejected |-> FALSE, reason |-> NoError, value |-> <<>>]
            /\ UNCHANGED catRequests
       ELSE /\ catPc' = "await"
            /\ catRequests' = Append(catRequests, RequestBody(catMessages, catProvider))
            /\ UNCHANGED catOutcome
    /\ UNCHANGED <<catMessages, catProvider, catResponse>>
    /\ UNCHANGED notCat

\* The request is answered.
CategorizeAnswered(response) ==
    /\ catPc = "await"
    /\ catResponse' = response
    /\ catOutcome' = categorizeSettled(catMessages, response)
    /\ catPc' = "done"
    /\ UNCHANGED <<catMessages, catProvider, catRequests>>
    /\ UNCHANGED notCat

NextCategorize ==
    \/ CategorizeCall
    \/ \E response \in ApiResponses : CategorizeAnswered(response)

SpecCategorize == InitCategorize /\ [][NextCategorize]_vars

\* C7: categorizeTransactionsWithAI never rejects; without messages it returns
\* the empty list and issues no request; when the request for n messages fails,
\* it returns n entries tx_1 .. tx_n, in order, under "Other" with confidence 0.
C7_NeverRejectsFallback ==
    /\ ~catOutcome.rejected
    /\ (catPc = "done" /\ catMessages = <<>>) =>
          (catOutcome.value = <<>> /\ catRequests = <<>>)
    /\ (catPc = "done" /\ catMessages # <<>> /\ catResponse.kind # "ok") =>
          /\ Len(catRequests) = 1
          /\ Len(catOutcome.value) = Len(catMessages)
          /\ \A i \in 1..Len(catMessages) :
                /\ catOutcome.value[i].transactionId =
                      (IF i = 1 THEN "tx_1" ELSE IF i = 2 THEN "tx_2"
                       ELSE IF i = 3 THEN "tx_3" ELSE "tx_4")
                /\ catOutcome.value[i].category.category = "Other"
                /\ catOutcome.value[i].category.confidence = 0

\* C7 witness: two messages, and an answer whose data is no array.
C7_Witness ==
    /\ catPc = "done"
    /\ Len(catMessages) = 2
    /\ catResponse.kind = "bad_data"
    /\ Len(catOutcome.value) = 2
    /\ catOutcome.value[2].transactionId = "tx_2"

\* The names of the nine entries of AVAILABLE_CATEGORIES.
CategoryNames == {AVAILABLE_CATEGORIES[k].name : k \in DOMAIN AVAILABLE_CATEGORIES}

\* C20: every category name in the result of categorizeTransactionsWithAI is
\* the name of an entry of AVAILABLE_CATEGORIES.
C20_OnlyAvailableCategories ==
    (catPc = "done" /\ ~catOutcome.rejected) =>
        \A i \in 1..Len(catOutcome.value) :
           catOutcome.value[i].category.category \in CategoryNames

\* C20 witness: the API returned the category 'Crypto'; the result carries
\* the name 'Crypto' with the icon and color of 'Other'.
C20_UnlistedCategoryKept ==
    /\ catPc = "done"
    /\ catResponse.kind = "ok"
    /\ ~catOutcome.rejected
    /\ \E i \in 1..Len(catOutcome.value) :
          /\ catOutcome.value[i].category.category = "Crypto"
          /\ "Crypto" \notin CategoryNames
          /\ catOutcome.value[i].category.icon = "speech balloon"
          /\ catOutcome.value[i].category.color = "bg-gray-100 border-gray-300 text-gray-800"

-----------------------------------------------------------------------------
(* Dashboard: loading the transactions and categorizing them by message *)

MaxConnects == 2

\* The transactions of a history, numbered by their hash, from their messages.
Txs(messages) == [i \in 1..Len(messages) |-> [id |-> i, message |-> messages[i]]]

\* The histories a fetch may return: none, one whose only message is blank,
\* one with a message, and one in which transactions without a message (or
\* with a blank one) stand between those with a message.
TxLists ==
    { Txs(<<>>),
      Txs(<< <<" ">> >>),
      Txs(<< <<"a">> >>),
      Txs(<< <<>>, <<"a">>, <<" ">>, <<" ", "b">> >>) }

\* What reading past the end of a list of transactions gives.
UndefinedTx == [id |-> 0, message |-> <<"undefined">>]

\* The test without the trim.
HasMessageNoTrim(tx) == tx.message # <<>>

\* tx.message && tx.message.trim() !== ''
HasMessage(tx) == tx.message # <<>> /\ Trim(tx.message) # <<>>

\* transactions.filter(tx => tx.message && tx.message.trim() !== '')
TxsWithMessages(txs) == SelectSeq(txs, HasMessage)

NoWalletAddressError == <<"No wallet address available">>

NoMessagesError ==
    <<"No transactions with messages found. AI categorization requires transactions that have message content.">>

FetchFailedError == <<"Failed to fetch blockchain data: ", "Blockfrost API error: 500">>

\* aiResults.forEach(...): the categories in the order of their first result,
\* each holding the transactions at its results' positions.
RECURSIVE GroupResults(_, _, _, _)
GroupResults(aiResults, txsWithMessages, index, categoryMap) ==
    IF index > Len(aiResults) THEN categoryMap
    ELSE LET result == aiResults[index]
             transaction == IF index <= Len(txsWithMessages)
                            THEN txsWithMessages[index] ELSE UndefinedTx
             categoryName == result.category.category
             has == \E k \in DOMAIN categoryMap : categoryMap[k].category = categoryName
             withEntry ==
                 IF has THEN categoryMap
                 ELSE Append(categoryMap,
                             [category |-> categoryName, transactions |-> <<>>,
                              color |-> result.category.color,
                              icon |-> result.category.icon,
                              confidence |-> result.category.confidence,
                              reasoning |-> result.category.reasoning])
             at == CHOOSE k \in DOMAIN withEntry : withEntry[k].category = categoryName
         IN  GroupResults(aiResults, txsWithMessages, index + 1,
                          [withEntry EXCEPT ![at].transactions = Append(@, transaction)])

\* sort((a, b) => b.transactions.length - a.transactions.length), a stable
\* sort: more transactions first, ties in their order.
RECURSIVE SortByCount(_)
SortByCount(categories) ==
    IF categories = <<>> THEN <<>>
    ELSE LET sorted == SortByCount(SubSeq(categories, 1, Len(categories) - 1))
             last == categories[Len(categories)]
             smaller == {k \in DOMAIN sorted :
                            Len(sorted[k].transactions) < Len(last.transactions)}
             at == IF smaller = {} THEN Len(sorted) + 1
                   ELSE CHOOSE k \in smaller : \A j \in smaller : k <= j
         IN  SubSeq(sorted, 1, at - 1) \o <<last>> \o SubSeq(sorted, at, Len(sorted))

\* The categories categorizeByMessagesWithAI builds from the AI's results.
Categories(aiResults, txsWithMessages) ==
    SortByCount(GroupResults(aiResults, txsWithMessages, 1, <<>>))

\* The effects a commit schedules: those with a dependency that changed.
\* setTransactions is always given a new array, so it always counts as a change.
Scheduled(transactionsSet) ==
    (IF dashConnected' # dashConnected \/ walletAddress' # walletAddress
     THEN {"fetch"} ELSE {})
    \cup (IF \/ transactionsSet
             \/ aiCategorizing' # aiCategorizing
             \/ Len(aiCategories') # Len(aiCategories)
          THEN {"categorize"} ELSE {})
    \cup (IF dashConnected' # dashConnected THEN {"address"} ELSE {})

\* Event handlers and promise continuations run once the effects of the last
\* commit have run.
Settled == pendingEffects = {}

\* fetchBlockchainTransactions up to its await of the address's transactions.
fetchBlockchainTransactions ==
    IF walletAddress = ""
    THEN /\ error' = NoWalletAddressError
         /\ UNCHANGED <<loading, fetchExecs>>
    ELSE /\ loading' = TRUE
         /\ error' = <<>>
         /\ fetchExecs' = fetchExecs + 1

\* categorizeByMessagesWithAI up to its await of categorizeTransactionsWithAI,
\* which POSTs the messages (there is at least one) before it awaits.
categorizeByMessagesWithAI ==
    LET txsWithMessages == TxsWithMessages(transactions)
        messages == [i \in 1..Len(txsWithMessages) |-> txsWithMessages[i].message]
    IN  IF Len(txsWithMessages) = 0
        THEN /\ error' = NoMessagesError
             /\ aiCategories' = <<>>
             /\ UNCHANGED <<aiCategorizing, catExecs, lastRequest>>
        ELSE /\ aiCategorizing' = TRUE
             /\ error' = <<>>
             /\ catExecs' = Append(catExecs, [txsWithMessages |-> txsWithMessages,
                                              messages |-> messages,
                                              provider |-> aiProvider])
             /\ lastRequest' = [issued |-> TRUE, messages |-> messages,
                                provider |-> aiProvider]
             /\ UNCHANGED aiCategories

\* The wallet context reports a connection.
DashConnect ==
    /\ Settled
    /\ ~dashConnected
    /\ connects < MaxConnects
    /\ dashConnected' = TRUE
    /\ connects' = connects + 1
    /\ UNCHANGED <<transactions, loading, walletAddress, error, aiCategorizing,
                   aiProvider, aiCategories, addrExecs, fetchExecs, catExecs,
                   lastRequest, lastAnswer>>
    /\ pendingEffects' = Scheduled(FALSE)
    /\ UNCHANGED notDash

\* The wallet context reports the disconnection.
DashDisconnect ==
    /\ Settled
    /\ dashConnected
    /\ dashConnected' = FALSE
    /\ UNCHANGED <<transactions, loading, walletAddress, error, aiCategorizing,
                   aiProvider, aiCategories, connects, addrExecs, fetchExecs,
                   catExecs, lastRequest, lastAnswer>>
    /\ pendingEffects' = Scheduled(FALSE)
    /\ UNCHANGED notDash

\* useEffect(..., [connected, wallet, walletAddress])
FetchEffect ==
    /\ "fetch" \in pendingEffects
    /\ IF dashConnected /\ walletAddress # ""
       THEN fetchBlockchainTransactions
       ELSE UNCHANGED <<loading, error, fetchExecs>>
    /\ UNCHANGED <<dashConnected, transactions, walletAddress, aiCategorizing,
                   aiProvider, aiCategories, connects, addrExecs, catExecs,
                   lastRequest, lastAnswer>>
    /\ pendingEffects' = (pendingEffects \ {"fetch"}) \cup Scheduled(FALSE)
    /\ UNCHANGED notDash

\* useEffect(..., [transactions, aiCategorizing, aiCategories.length])
AutoCategorizeEffect ==
    /\ "categorize" \in pendingEffects
    /\ "fetch" \notin pendingEffects
    /\ IF /\ Len(transactions) > 0
          /\ ~aiCategorizing
          /\ Len(aiCategories) = 0
          /\ Len(TxsWithMessages(transactions)) > 0
       THEN categorizeByMessagesWithAI
       ELSE UNCHANGED <<error, aiCategories, aiCategorizing, catExecs, lastRequest>>
    /\ UNCHANGED <<dashConnected, transactions, loading, walletAddress, aiProvider,
                   connects, addrExecs, fetchExecs, lastAnswer>>
    /\ pendingEffects' = (pendingEffects \ {"categorize"}) \cup Scheduled(FALSE)
    /\ UNCHANGED notDash

\* useEffect(..., [connected, wallet]): getWalletAddress up to its await, or
\* the reset of the disconnected dashboard.
WalletAddressEffect ==
    /\ "address" \in pendingEffects
    /\ pendingEffects \cap {"fetch", "categorize"} = {}
    /\ IF dashConnected
       THEN /\ addrExecs' = addrExecs + 1
            /\ UNCHANGED <<transactions, walletAddress, error>>
       ELSE /\ transactions' = <<>>
            /\ walletAddress' = ""
            /\ error' = <<>>
            /\ UNCHANGED addrExecs
    /\ UNCHANGED <<dashConnected, loading, aiCategorizing, aiProvider, aiCategories,
                   connects, fetchExecs, catExecs, lastRequest, lastAnswer>>
    /\ pendingEffects' = (pendingEffects \ {"address"}) \cup Scheduled(~dashConnected)
    /\ UNCHANGED notDash

\* wallet.getUsedAddresses() returned.
GetUsedAddressesReturned(addresses) ==
    /\ Settled
    /\ addrExecs > 0
    /\ addrExecs' = addrExecs - 1
    /\ walletAddress' = IF Len(addresses) > 0 THEN addresses[1] ELSE walletAddress
    /\ UNCHANGED <<dashConnected, transactions, loading, error, aiCategorizing,
                   aiProvider, aiCategories, connects, fetchExecs, catExecs,
                   lastRequest, lastAnswer>>
    /\ pendingEffects' = Scheduled(FALSE)
    /\ UNCHANGED notDash

\* wallet.getUsedAddresses() threw: logged, nothing else.
GetUsedAddressesThrew ==
    /\ Settled
    /\ addrExecs > 0
    /\ addrExecs' = addrExecs - 1
    /\ UNCHANGED <<dashConnected, transactions, loading, walletAddress, error,
                   aiCategorizing, aiProvider, aiCategories, pendingEffects,
                   connects, fetchExecs, catExecs, lastRequest, lastAnswer>>
    /\ UNCHANGED notDash

\* A click on Refresh Data / Refresh Blockchain Data; the page shows the
\* buttons only while loading is false.
ClickRefresh ==
    /\ Settled
    /\ ~loading
    /\ fetchBlockchainTransactions
    /\ UNCHANGED <<dashConnected, transactions, walletAddress, aiCategorizing,
                   aiProvider, aiCategories, pendingEffects, connects, addrExecs,
                   catExecs, lastRequest, lastAnswer>>
    /\ UNCHANGED notDash

\* The address's transactions arrived: the rest of fetchBlockchainTransactions.
FetchReturned(blockchainTxs) ==
    /\ Settled
    /\ fetchExecs > 0
    /\ fetchExecs' = fetchExecs - 1
    /\ transactions' = blockchainTxs
    /\ loading' = FALSE
    /\ UNCHANGED <<dashConnected, walletAddress, error, aiCategorizing, aiProvider,
                   aiCategories, connects, addrExecs, catExecs, lastRequest,
                   lastAnswer>>
    /\ pendingEffects' = Scheduled(TRUE)
    /\ UNCHANGED notDash

\* fetchAddressTransactions threw: catch and finally.
FetchThrew ==
    /\ Settled
    /\ fetchExecs > 0
    /\ fetchExecs' = fetchExecs - 1
    /\ error' = FetchFailedError
    /\ loading' = FALSE
    /\ UNCHANGED <<dashConnected, transactions, walletAddress, aiCategorizing,
                   aiProvider, aiCategories, pendingEffects, connects, addrExecs,
                   catExecs, lastRequest, lastAnswer>>
    /\ UNCHANGED notDash

\* disabled={aiCategorizing || no transaction has a message}
CategorizeButtonEnabled ==
    /\ ~loading
    /\ ~aiCategorizing
    /\ Len(TxsWithMessages(transactions)) > 0

\* A click on Categorize with AI / Re-categorize with AI.
ClickCategorize ==
    /\ Settled
    /\ CategorizeButtonEnabled
    /\ categorizeByMessagesWithAI
    /\ UNCHANGED <<dashConnected, transactions, loading, walletAddress, aiProvider,
                   connects, addrExecs, fetchExecs, lastAnswer>>
    /\ pendingEffects' = Scheduled(FALSE)
    /\ UNCHANGED notDash

\* The request of execution i was answered: categorizeTransactionsWithAI
\* settles, and categorizeByMessagesWithAI runs to its end.
CategorizationAnswered(i, response) ==
    /\ Settled
    /\ i \in 1..Len(catExecs)
    /\ \E aiResults \in {categorizeSettled(catExecs[i].messages, response)} :
          IF aiResults.rejected
          THEN /\ error' = <<"AI categorization failed: ">> \o
                              (IF aiResults.reason.isError
                               THEN aiResults.reason.message
                               ELSE <<"Unknown error occurred">>)
               /\ aiCategories' = <<>>
          ELSE \E categories \in {Categories(aiResults.value,
                                              catExecs[i].txsWithMessages)} :
                  /\ aiCategories' = categories
                  /\ error' = IF Len(categories) > 0 THEN <<>> ELSE error
    /\ aiCategorizing' = FALSE
    /\ catExecs' = RemoveAt(catExecs, i)
    /\ lastAnswer' = [NoResponse EXCEPT !.kind = response.kind]
    /\ UNCHANGED <<dashConnected, transactions, loading, walletAddress, aiProvider,
                   connects, addrExecs, fetchExecs, lastRequest>>
    /\ pendingEffects' = Scheduled(FALSE)
    /\ UNCHANGED notDash

WalletAddresses == {"addr_test1_A"}

InitDashboard ==
    /\ AmountIdle
    /\ HomeIdle
    /\ CatIdle
    /\ ApiIdle
    /\ DashIdle

NextDashboard ==
    \/ DashConnect
    \/ DashDisconnect
    \/ FetchEffect
    \/ AutoCategorizeEffect
    \/ WalletAddressEffect
    \/ \E addresses \in SeqsUpTo(WalletAddresses, 1) : GetUsedAddressesReturned(addresses)
    \/ GetUsedAddressesThrew
    \/ ClickRefresh
    \/ \E blockchainTxs \in TxLists : FetchReturned(blockchainTxs)
    \/ FetchThrew
    \/ ClickCategorize
    \/ \E i \in 1..Len(catExecs), response \in ApiResponses :
          CategorizationAnswered(i, response)

SpecDashboard == InitDashboard /\ [][NextDashboard]_vars

\* React runs the effects a commit scheduled, and a request to the route is
\* answered (or fails) in the end, however often its continuation has to wait
\* for the effects of other events.
FairDashboard ==
    /\ SpecDashboard
    /\ WF_vars(FetchEffect)
    /\ WF_vars(AutoCategorizeEffect)
    /\ WF_vars(WalletAddressEffect)
    /\ SF_vars(\E i \in 1..Len(catExecs), response \in ApiResponses :
                  CategorizationAnswered(i, response))

\* A categorizeByMessagesWithAI execution ends in this step.
CategorizationCompletes == Len(catExecs') < Len(catExecs)

\* C6: when a categorization whose request failed (any answer but a success
\* with a result list) completes, the dashboard's error is
\* 'AI categorization failed: <message>' and aiCategories is empty.
C6_FailureSurfaced ==
    [][(CategorizationCompletes /\ lastAnswer'.kind # "ok") =>
          /\ error' # <<>>
          /\ error'[1] = "AI categorization failed: "
          /\ aiCategories' = <<>>]_vars

\* What happens instead: the failure ends up as a category "Other" holding
\* every transaction with a message, and no error is shown.
C6_FallbackShown ==
    /\ lastAnswer.kind = "http_error"
    /\ catExecs = <<>>
    /\ ~aiCategorizing
    /\ error = <<>>
    /\ Len(aiCategories) = 1
    /\ aiCategories[1].category = "Other"
    /\ Len(aiCategories[1].transactions) = 2

\* The dashboard holds a transaction with a message, is not categorizing and
\* has no categories.
AwaitsCategories ==
    /\ \E k \in DOMAIN transactions :
          \E c \in DOMAIN transactions[k].message : transactions[k].message[c] # " "
    /\ ~aiCategorizing
    /\ aiCategories = <<>>

\* C8: whenever a transaction with a non-blank message is loaded, nothing is
\* being categorized and there are no categories, a categorization is started
\* without a click and in the end aiCategorizing is false and aiCategories is
\* not empty.
C8_AutoCategorizeCompletes ==
    AwaitsCategories ~> (~aiCategorizing /\ aiCategories # <<>>)

\* The loop C8 runs into: after a success with an empty result list the effect
\* has issued the request again.
C8_RequestedAgain ==
    /\ lastAnswer.kind = "ok"
    /\ aiCategories = <<>>
    /\ aiCategorizing
    /\ Len(catExecs) = 1

\* A message with a character that is no white space.
NonBlank(message) == \E c \in DOMAIN message : message[c] # " "

\* The messages of txs that are not blank, in the order of txs.
RECURSIVE NonBlankMessages(_)
NonBlankMessages(txs) ==
    IF txs = <<>> THEN <<>>
    ELSE (IF NonBlank(Head(txs).message) THEN <<Head(txs).message>> ELSE <<>>)
         \o NonBlankMessages(Tail(txs))

\* C9: the messages passed to categorizeTransactionsWithAI are the non-blank
\* messages of the transactions, in their order, and nothing is passed (no
\* request is issued) when no transaction has one.
C9_OnlyMessagesSent ==
    [][/\ (Len(catExecs') > Len(catExecs) \/ lastRequest' # lastRequest) =>
             /\ lastRequest'.issued
             /\ lastRequest'.messages = NonBlankMessages(transactions)
             /\ catExecs'[Len(catExecs')].messages = NonBlankMessages(transactions)
       /\ NonBlankMessages(transactions) = <<>> =>
             (Len(catExecs') <= Len(catExecs) /\ lastRequest' = lastRequest)]_vars

\* C9 witness: of four transactions, the two with a message were sent.
C9_Witness ==
    /\ Len(transactions) = 4
    /\ Len(catExecs) = 1
    /\ lastRequest.issued
    /\ lastRequest.messages = << <<"a">>, <<" ", "b">> >>

\* Every categorization request issued so far, in flight or last sent,
\* carries the provider 'gemini'.
OnlyGeminiRequested ==
    /\ aiProvider = "gemini"
    /\ lastRequest.issued => lastRequest.provider = "gemini"
    /\ \A i \in 1..Len(catExecs) : catExecs[i].provider = "gemini"

\* C13: a categorization request with a provider other than the default
\* 'gemini' is sent at some point.
C13_OtherProviderRequested ==
    <>(lastRequest.issued /\ lastRequest.provider # "gemini")

\* C13 witness: a categorization request is in flight with the provider
\* 'gemini', the initial value of aiProvider.
C13_GeminiRequested ==
    /\ Len(catExecs) = 1
    /\ catExecs[1].provider = "gemini"
    /\ lastRequest.issued
    /\ lastRequest.provider = "gemini"
    /\ aiProvider = "gemini"

\* C14: fetchBlockchainTransactions executions do not overlap: a fetch is
\* started, by the fetch effect or by a Refresh button, only while loading is
\* false and no other fetch is in flight.
C14_NoOverlappingFetches ==
    [][fetchExecs' > fetchExecs => (~loading /\ fetchExecs = 0)]_vars

\* C14 witness: two fetchBlockchainTransactions executions are in flight, the
\* second started by the fetch effect after a reconnect.
C14_TwoFetchesInFlight ==
    /\ fetchExecs = 2
    /\ loading
    /\ connects = 2
    /\ dashConnected

\* The auto-categorize effect issues a categorization request in this step.
AutoRequest == AutoCategorizeEffect /\ Len(catExecs') > Len(catExecs)

\* C18: once the loaded transaction list no longer changes, the
\* auto-categorize effect issues only finitely many requests: from some point
\* on it starts none, whatever the API answers to each request.
C18_AutoCategorizeTerminates ==
    (<>[][transactions' = transactions]_vars) => (<>[][~AutoRequest]_vars)

\* C18 witness: a request was answered with a success and an empty result
\* list; nothing is categorized, and the auto-categorize effect is scheduled
\* again over the same transactions.
C18_EffectRescheduled ==
    /\ lastAnswer.kind = "ok"
    /\ lastRequest.issued
    /\ lastRequest.messages = NonBlankMessages(transactions)
    /\ aiCategories = <<>>
    /\ ~aiCategorizing
    /\ catExecs = <<>>
    /\ "categorize" \in pendingEffects

\* The places (category, position) at which tx is listed in categories.
PlacesOf(tx, categories) ==
    {p \in (DOMAIN categories) \X (1..(MaxResults + 1)) :
        /\ p[2] \in DOMAIN categories[p[1]].transactions
        /\ categories[p[1]].transactions[p[2]] = tx}

\* C19: when a categorization whose request succeeded completes, every
\* transaction with a non-blank message it was started for is listed in exactly
\* one category, and the categories list nothing but these transactions.
C19_EachMessageInOneCategory ==
    [][(Len(catExecs) = 1 /\ catExecs' = <<>> /\ lastAnswer'.kind = "ok") =>
          LET txs == catExecs[1].txsWithMessages
          IN  /\ \A k \in DOMAIN txs :
                    Cardinality(PlacesOf(txs[k], aiCategories')) = 1
              /\ \A c \in DOMAIN aiCategories' :
                    \A k \in DOMAIN aiCategories'[c].transactions :
                       \E j \in DOMAIN txs : aiCategories'[c].transactions[k] = txs[j]]_vars

\* C19 witness: two transactions with non-blank messages were sent, the API
\* returned one result, and the one category lists one transaction: the
\* other is in no category.
C19_TransactionLeftOut ==
    /\ lastAnswer.kind = "ok"
    /\ catExecs = <<>>
    /\ ~aiCategorizing
    /\ Len(lastRequest.messages) = 2
    /\ lastRequest.messages = NonBlankMessages(transactions)
    /\ Len(aiCategories) = 1
    /\ Len(aiCategories[1].transactions) = 1

-----------------------------------------------------------------------------
(* The /api/categorize route *)

\* The environment variables the route reads.
EnvKeys ==
    {"NEXT_PUBLIC_GEMINI_API_KEY", "NEXT_PUBLIC_ANTHROPIC_API_KEY",
     "NEXT_PUBLIC_AI_API_KEY", "NEXT_PUBLIC_OPENAI_API_KEY",
     "NEXT_PUBLIC_GROQ_API_KEY"}

\* The provider field of a request body: missing or empty (""), one the route
\* knows, or another text.
ApiProviders == {"", "gemini", "anthropic", "openai", "groq", "Gemini", "mistral"}

\* The request bodies: messages missing, no array (a text), or an array.
ApiBodies ==
    [messagesKind : {"missing", "text"}, messages : {<<>>}, provider : ApiProviders]
    \cup [messagesKind : {"array"}, messages : SeqsUpTo(MessagePool, MaxMessages),
          provider : ApiProviders]

\* How a provider answers: not at all (fetch throws), with an error status,
\* with a body of another shape, or with a text: a JSON array (bare or inside
\* prose), a JSON object, or no JSON.
UpstreamAnswers ==
    [kind : {"network_error", "no_text"}, status : {0}, data : {<<>>}]
    \cup [kind : {"http_error"}, status : {401, 403, 429, 500}, data : {<<>>}]
    \cup [kind : {"object", "no_json"}, status : {200}, data : {<<>>}]
    \cup [kind : {"array", "prose_array"}, status : {200},
          data : SeqsUpTo(AiResults, MaxResults)]

\* process.env[name], "" when it is not set; a set variable holds a key of
\* its own.
Env(name) == IF name \in apiEnv THEN "key:" \o name ELSE ""

\* a || b
Or(a, b) == IF a # "" THEN a ELSE b

\* The key each branch of the handler uses.
ApiKey(provider) ==
    CASE provider = "gemini" -> Env("NEXT_PUBLIC_GEMINI_API_KEY")
      [] provider = "anthropic" -> Env("NEXT_PUBLIC_ANTHROPIC_API_KEY")
      [] provider = "openai" ->
            Or(Env("NEXT_PUBLIC_AI_API_KEY"), Env("NEXT_PUBLIC_OPENAI_API_KEY"))
      [] provider = "groq" ->
            Or(Env("NEXT_PUBLIC_GROQ_API_KEY"), Env("NEXT_PUBLIC_AI_API_KEY"))
      [] OTHER -> ""

\* callOpenAIAPI with one endpoint for both of its providers.
EndpointOpenAIOnly(provider) ==
    CASE provider = "gemini" ->
            "https://generativelanguage.googleapis.com/v1beta/models/gemini-1.5-flash-latest:generateContent"
      [] provider = "anthropic" -> "https://api.anthropic.com/v1/messages"
      [] OTHER -> "https://api.openai.com/v1/chat/completions"

\* The URL callGeminiAPI, callAnthropicAPI and callOpenAIAPI fetch.
Endpoint(provider) ==
    CASE provider = "gemini" ->
            "https://generativelanguage.googleapis.com/v1beta/models/gemini-1.5-flash-latest:generateContent"
      [] provider = "anthropic" -> "https://api.anthropic.com/v1/messages"
      [] provider = "openai" -> "https://api.openai.com/v1/chat/completions"
      [] provider = "groq" -> "https://api.groq.com/openai/v1/chat/completions"
      [] OTHER -> "undefined"

\* The provider's name in the handler's 'API key not configured' replies.
KeyName(provider) ==
    CASE provider = "gemini" -> "Gemini"
      [] provider = "anthropic" -> "Anthropic"
      [] provider = "openai" -> "OpenAI"
      [] OTHER -> "Groq"

\* The provider's name in the errors its call throws.
CallName(provider) ==
    CASE provider = "gemini" -> "Google Gemini"
      [] provider = "anthropic" -> "Anthropic"
      [] OTHER -> provider

\* res.status(status).json({ success: false, error })
Failure(status, message) ==
    [status |-> status, success |-> FALSE, error |-> message,
     dataKind |-> "none", data |-> <<>>]

\* The message of what the provider's call throws on answer.
UpstreamError(provider, answer) ==
    CASE answer.kind = "network_error" -> "fetch failed"
      [] answer.kind = "no_text" -> "Cannot read properties of undefined (reading '0')"
      [] answer.status = 401 \/ (answer.status = 403 /\ provider = "gemini") ->
            "Authentication failed with " \o CallName(provider)
               \o ". Please check your API key."
      [] answer.status = 429 ->
            "Rate limit exceeded for " \o CallName(provider)
               \o ". Please try again later."
      [] OTHER ->
            CallName(provider) \o " API error: " \o ToString(answer.status) \o " "
               \o (IF answer.status = 500 THEN "Internal Server Error" ELSE "Forbidden")

InitApi ==
    /\ AmountIdle
    /\ HomeIdle
    /\ CatIdle
    /\ DashIdle
    /\ apiMethod \in {"POST", "GET"}
    /\ apiBody \in ApiBodies
    /\ apiEnv \in SUBSET EnvKeys
    /\ apiPc = "start"
    /\ apiUpstream = <<>>
    /\ apiReply = NoReply

\* handler up to its reply or to its await of the provider's call.
ApiHandle ==
    /\ apiPc = "start"
    /\ LET provider == apiBody.provider
           reply(r) == /\ apiReply' = r
                       /\ apiPc' = "done"
                       /\ UNCHANGED apiUpstream
       IN  IF apiMethod # "POST"
           THEN reply(Failure(405, "Method not allowed"))
           ELSE IF apiBody.messagesKind # "array" \/ Len(apiBody.messages) = 0
           THEN reply(Failure(400, "Messages array is required"))
           ELSE IF provider = ""
           THEN reply(Failure(400, "Provider is required"))
           ELSE IF provider \in {"gemini", "anthropic", "openai", "groq"}
           THEN IF ApiKey(provider) = ""
                THEN reply(Failure(400, KeyName(provider) \o " API key not configured"))
                ELSE /\ apiUpstream' = Append(apiUpstream,
                                              [endpoint |-> Endpoint(provider),
                                               key |-> ApiKey(provider)])
                     /\ apiPc' = "upstream"
                     /\ UNCHANGED apiReply
           ELSE reply(Failure(400, "Unknown provider"))
    /\ UNCHANGED <<apiMethod, apiBody, apiEnv>>
    /\ UNCHANGED notApi

\* The provider answered: the rest of its call and of the handler.
ApiUpstreamAnswered(answer) ==
    /\ apiPc = "upstream"
    /\ apiReply' =
          IF answer.kind \in {"network_error", "no_text", "http_error"}
          THEN Failure(500, UpstreamError(apiBody.provider, answer))
          ELSE IF answer.kind = "no_json"
          THEN Failure(500, "Failed to parse AI response as JSON: SyntaxError")
          ELSE [status |-> 200, success |-> TRUE, error |-> "",
                dataKind |-> IF answer.kind = "object" THEN "object" ELSE "array",
                data |-> answer.data]
    /\ apiPc' = "done"
    /\ UNCHANGED <<apiMethod, apiBody, apiEnv, apiUpstream>>
    /\ UNCHANGED notApi

NextApi ==
    \/ ApiHandle
    \/ \E answer \in UpstreamAnswers : ApiUpstreamAnswered(answer)

SpecApi == InitApi /\ [][NextApi]_vars

\* The four providers with their endpoints, as the README lists them.
SupportedEndpoints ==
    [gemini |-> "https://generativelanguage.googleapis.com/v1beta/models/gemini-1.5-flash-latest:generateContent",
     openai |-> "https://api.openai.com/v1/chat/completions",
     groq |-> "https://api.groq.com/openai/v1/chat/completions",
     anthropic |-> "https://api.anthropic.com/v1/messages"]

\* A key is configured for the provider.
KeyConfigured(provider) ==
    CASE provider = "gemini" -> "NEXT_PUBLIC_GEMINI_API_KEY" \in apiEnv
      [] provider = "anthropic" -> "NEXT_PUBLIC_ANTHROPIC_API_KEY" \in apiEnv
      [] provider = "openai" ->
            apiEnv \cap {"NEXT_PUBLIC_AI_API_KEY", "NEXT_PUBLIC_OPENAI_API_KEY"} # {}
      [] provider = "groq" ->
            apiEnv \cap {"NEXT_PUBLIC_GROQ_API_KEY", "NEXT_PUBLIC_AI_API_KEY"} # {}
      [] OTHER -> FALSE

\* A POST with a non-empty messages array.
ValidPost ==
    /\ apiMethod = "POST"
    /\ apiBody.messagesKind = "array"
    /\ apiBody.messages # <<>>

\* A valid POST for one of the four providers with a configured key makes
\* exactly one upstream call, to that provider's endpoint.
OneCallToTheProvider ==
    (/\ ValidPost
     /\ apiBody.provider \in DOMAIN SupportedEndpoints
     /\ KeyConfigured(apiBody.provider)
     /\ apiPc # "start") =>
        /\ Len(apiUpstream) = 1
        /\ apiUpstream[1].endpoint = SupportedEndpoints[apiBody.provider]

\* C10 as stated: one call to the provider's endpoint for the four providers,
\* and 400 'Unknown provider' without an upstream call for every other
\* provider value.
C10_AnyOtherProviderUnknown ==
    /\ OneCallToTheProvider
    /\ (/\ ValidPost
        /\ apiBody.provider \notin DOMAIN SupportedEndpoints
        /\ apiPc = "done") =>
           /\ apiReply.status = 400
           /\ apiReply.error = "Unknown provider"
           /\ apiUpstream = <<>>

\* C10, amended: one call to the provider's endpoint for the four providers;
\* 400 'Unknown provider' for every other non-empty provider value and 400
\* 'Provider is required' for a missing or empty one, without an upstream call.
C10_ProviderRouting ==
    /\ OneCallToTheProvider
    /\ (/\ ValidPost
        /\ apiBody.provider \notin DOMAIN SupportedEndpoints
        /\ apiPc = "done") =>
           /\ apiReply.status = 400
           /\ apiReply.error = (IF apiBody.provider = "" THEN "Provider is required"
                                ELSE "Unknown provider")
           /\ apiUpstream = <<>>

\* C10 witness: a valid POST without a provider was refused.
C10_Witness ==
    /\ ValidPost
    /\ apiBody.provider = ""
    /\ apiPc = "done"
    /\ apiReply.status = 400
    /\ apiReply.error = "Provider is required"
    /\ apiUpstream = <<>>

\* C12: a valid POST for one of the four providers whose API key is not
\* configured is answered with status 401.
C12_MissingKeyIs401 ==
    (/\ ValidPost
     /\ apiBody.provider \in DOMAIN SupportedEndpoints
     /\ ~KeyConfigured(apiBody.provider)
     /\ apiPc = "done") =>
        apiReply.status = 401

\* C12 witness: a valid POST for gemini without NEXT_PUBLIC_GEMINI_API_KEY was
\* answered 400 'Gemini API key not configured', no provider having been
\* called.
C12_MissingKeyIs400 ==
    /\ ValidPost
    /\ apiBody.provider = "gemini"
    /\ ~KeyConfigured("gemini")
    /\ apiPc = "done"
    /\ apiReply.status = 400
    /\ apiReply.error = "Gemini API key not configured"
    /\ apiUpstream = <<>>

Spec == SpecAmount

=============================================================================
